---- MODULE Spec2Model ----
(***************************************************************************)
(* PremiumCoffee catalog backend: the product cache over the spreadsheet   *)
(* reader, the images-folder watcher and its broadcast, the image listing, *)
(* the Drive image proxy, and the start-up that opens the database before  *)
(* the server listens.                                                     *)
(*                                                                         *)
(* Strings are sequences of one-character strings.  JavaScript values that *)
(* arrive in spreadsheet cells are records [t, s, n]: t is the typeof tag, *)
(* s the characters of a string, n a decimal number [num, exp] standing    *)
(* for num / 10^exp.                                                       *)
(***************************************************************************)
EXTENDS Integers, Sequences, FiniteSets, TLC

----------------------------------------------------------------------------
(* Bounds of the model.                                                    *)

MaxRows == 2
MaxCalls == 2
MaxClock == 3
MaxFetches == 2
MaxClients == 2
MaxEvents == 2
MaxIdLen == 11
MaxRequests == 2

----------------------------------------------------------------------------
(* Strings.                                                                *)

DigitChars == <<"0", "1", "2", "3", "4", "5", "6", "7", "8", "9">>

Digits == {DigitChars[i] : i \in 1..10}

DigitVal(c) == (CHOOSE i \in 1..10 : DigitChars[i] = c) - 1

WhiteSpace == {" ", "\t"}

RECURSIVE TrimStart(_)
TrimStart(s) ==
    IF s # <<>> /\ Head(s) \in WhiteSpace THEN TrimStart(Tail(s)) ELSE s

RECURSIVE TrimEnd(_)
TrimEnd(s) ==
    IF s # <<>> /\ s[Len(s)] \in WhiteSpace
    THEN TrimEnd(SubSeq(s, 1, Len(s) - 1))
    ELSE s

\* String.prototype.trim
Trim(s) == TrimEnd(TrimStart(s))

RECURSIVE Pow10(_)
Pow10(k) == IF k = 0 THEN 1 ELSE 10 * Pow10(k - 1)

RECURSIVE NatToStr(_)
NatToStr(n) ==
    IF n < 10 THEN <<DigitChars[n + 1]>>
    ELSE NatToStr(n \div 10) \o <<DigitChars[(n % 10) + 1]>>

RECURSIVE FracToStr(_, _)
\* the exp digits of the fractional part frac, leading zeros kept
FracToStr(frac, exp) ==
    IF exp = 0 THEN <<>>
    ELSE FracToStr(frac \div 10, exp - 1) \o <<DigitChars[(frac % 10) + 1]>>

----------------------------------------------------------------------------
(* JavaScript values.                                                      *)

\* a decimal number num / 10^exp, kept without trailing fractional zeros
RECURSIVE Norm(_, _)
Norm(num, exp) ==
    IF exp > 0 /\ num % 10 = 0 THEN Norm(num \div 10, exp - 1)
    ELSE [num |-> num, exp |-> exp]

Zero == [num |-> 0, exp |-> 0]

Undefined == [t |-> "undefined", s |-> <<>>, n |-> Zero]
NullVal == [t |-> "null", s |-> <<>>, n |-> Zero]
StrVal(chars) == [t |-> "string", s |-> chars, n |-> Zero]
NumVal(num, exp) == [t |-> "number", s |-> <<>>, n |-> Norm(num, exp)]
BoolVal(b) == [t |-> "boolean", s |-> IF b THEN <<"t", "r", "u", "e">>
                                        ELSE <<"f", "a", "l", "s", "e">>, n |-> Zero]

Abs(i) == IF i < 0 THEN -i ELSE i

\* String(v) for a number in decimal notation
NumberToString(n) ==
    LET a == Abs(n.num)
        p == Pow10(n.exp)
    IN  (IF n.num < 0 THEN <<"-">> ELSE <<>>)
        \o NatToStr(a \div p)
        \o (IF n.exp = 0 THEN <<>> ELSE <<".">> \o FracToStr(a % p, n.exp))

\* String(v)
String(v) ==
    CASE v.t = "string" -> v.s
      [] v.t = "number" -> NumberToString(v.n)
      [] v.t = "boolean" -> v.s
      [] v.t = "undefined" -> <<"u", "n", "d", "e", "f", "i", "n", "e", "d">>
      [] OTHER -> <<"n", "u", "l", "l">>

\* whether if (v) takes the branch
ToBoolean(v) ==
    CASE v.t = "string" -> v.s # <<>>
      [] v.t = "number" -> v.n.num # 0
      [] v.t = "boolean" -> v.s = <<"t", "r", "u", "e">>
      [] OTHER -> FALSE

\* the helper toStr of fetchProductsFromSheet
toStr(v) ==
    IF v.t = "null" \/ v.t = "undefined" THEN <<>>
    ELSE IF v.t = "string" THEN v.s ELSE String(v)

----------------------------------------------------------------------------
(* Price normalisation.                                                    *)

PriceChars == Digits \cup {".", ",", "-"}

\* .replace(/[^\d.,\-]/g, "")
StripNonPrice(s) == SelectSeq(s, LAMBDA c : c \in PriceChars)

RECURSIVE ReplaceFirstComma(_)
\* .replace(",", "."): a string pattern replaces the first occurrence only
ReplaceFirstComma(s) ==
    IF s = <<>> THEN <<>>
    ELSE IF Head(s) = "," THEN <<".">> \o Tail(s)
    ELSE <<Head(s)>> \o ReplaceFirstComma(Tail(s))

RECURSIVE DigitPrefixLen(_)
DigitPrefixLen(s) ==
    IF s # <<>> /\ Head(s) \in Digits THEN 1 + DigitPrefixLen(Tail(s)) ELSE 0

RECURSIVE DigitsToNat(_)
DigitsToNat(s) ==
    IF s = <<>> THEN 0
    ELSE 10 * DigitsToNat(SubSeq(s, 1, Len(s) - 1)) + DigitVal(s[Len(s)])

NaN == [nan |-> TRUE, num |-> 0, exp |-> 0]

\* parseFloat on a string of digits, periods, commas and minus signs: the
\* longest prefix "-"? digits* ("." digits*)? holding a digit, NaN without one
parseFloat(str) ==
    LET s0 == TrimStart(str)
        neg == s0 # <<>> /\ Head(s0) = "-"
        s1 == IF neg THEN Tail(s0) ELSE s0
        il == DigitPrefixLen(s1)
        ip == SubSeq(s1, 1, il)
        r1 == SubSeq(s1, il + 1, Len(s1))
        dot == r1 # <<>> /\ Head(r1) = "."
        r2 == IF dot THEN Tail(r1) ELSE <<>>
        fl == DigitPrefixLen(r2)
        fp == SubSeq(r2, 1, fl)
        mag == DigitsToNat(ip \o fp)
        v == Norm(IF neg THEN -mag ELSE mag, fl)
    IN  IF il + fl = 0 THEN NaN
        ELSE [nan |-> FALSE, num |-> v.num, exp |-> v.exp]

\* parseFloat(cleaned) || 0: NaN and zero are falsy
ParseOrZero(cleaned) ==
    LET f == parseFloat(cleaned)
    IN  IF f.nan \/ f.num = 0 THEN Zero ELSE [num |-> f.num, exp |-> f.exp]

CleanPrice(s) == ReplaceFirstComma(StripNonPrice(Trim(s)))

\* the price of a row from its raw price cell
NormalizePrice(priceRaw) ==
    IF priceRaw.t = "number" THEN priceRaw.n
    ELSE IF priceRaw.t = "string" THEN ParseOrZero(CleanPrice(priceRaw.s))
    ELSE IF priceRaw.t # "null" /\ priceRaw.t # "undefined"
         THEN ParseOrZero(CleanPrice(String(priceRaw)))
    ELSE Zero

----------------------------------------------------------------------------
(* Rows to products.                                                       *)

\* const [imageRaw, nameRaw, priceRaw, descRaw] = r
Cell(r, i) == IF i <= Len(r) THEN r[i] ELSE Undefined

MapRow(r) ==
    [image |-> Trim(toStr(Cell(r, 1))),
     name |-> Trim(toStr(Cell(r, 2))),
     price |-> NormalizePrice(Cell(r, 3)),
     description |-> Trim(toStr(Cell(r, 4)))]

\* a non-empty string is truthy
Truthy(s) == s # <<>>

KeepProductWithPrice(p) ==
    Truthy(p.name) \/ Truthy(p.image) \/ Truthy(p.description) \/ p.price.num # 0

\* .filter(p => p.name || p.image || p.description)
KeepProduct(p) == Truthy(p.name) \/ Truthy(p.image) \/ Truthy(p.description)

RECURSIVE MapRows(_)
MapRows(rows) ==
    IF rows = <<>> THEN <<>> ELSE <<MapRow(Head(rows))>> \o MapRows(Tail(rows))

\* rows.map(...).filter(...) of fetchProductsFromSheet
ProductsOfRows(rows) == SelectSeq(MapRows(rows), KeepProduct)

----------------------------------------------------------------------------
(* State.                                                                  *)

VARIABLES
    env,            \* process.env as read at start-up
    clock,          \* Date.now()
    sheetRows,      \* the rows the remote spreadsheet holds
    readerOut,      \* what a direct fetchProductsFromSheet() last resolved to
    productsCache,  \* let productsCache = { data, ts }
    fetchSeq,       \* arrays created by successful fetches so far
    calls,          \* the getProducts calls awaiting their fetch
    lastCall,       \* the getProducts call that returned last
    watching,       \* fs.watch is installed on public/images
    clients,        \* wss.clients, in the order the sockets connected
    notifications,  \* invocations of the fs.watch listener so far
    broadcasts,     \* invocations of notifyClients so far
    lastEmit,       \* the sends of the last notifyClients
    img,            \* the GET /img/:id request being served
    folder,         \* public/images on disk
    listing,        \* the GET /images request being served
    host,           \* the machine the process starts on: build, disk, port
    boot,           \* how far initDB() and the callbacks chained on it are
    db,             \* let db, and the schema of the database it opens
    server          \* the http server and the requests that reached it

productVars ==
    <<env, clock, sheetRows, readerOut, productsCache, fetchSeq, calls,
      lastCall>>

watchVars == <<watching, clients, notifications, broadcasts, lastEmit>>

imgVars == <<img>>

listVars == <<folder, listing>>

bootVars == <<host, boot, db, server>>

\* what the product endpoints leave alone
otherVars == <<watchVars, imgVars, listVars, bootVars>>

vars == <<productVars, watchVars, imgVars, listVars, bootVars>>

----------------------------------------------------------------------------
(* Start-up: the module is loaded, initDB() runs, and server.listen is     *)
(* chained on its promise.                                                 *)

\* the servers of the repository that open the database before listening
Builds == {"part_002", "part_004"}

\* PORT as the operating system sees it: free, held by another process, or
\* out of range
Ports == {"free", "busy", "invalid"}

\* the machines the process may be started on
Hosts ==
    [build : Builds, images : BOOLEAN, dataDir : BOOLEAN, writable : BOOLEAN,
     port : Ports]

NotLoaded ==
    [alive |-> TRUE, initDB |-> "unloaded", listenCalled |-> FALSE,
     thenThrew |-> FALSE, logged |-> FALSE]

\* let db: nothing opened, no table
NoDb == [open |-> FALSE, schema |-> FALSE]

\* http.createServer(app): not bound to a port
ClosedServer == [state |-> "closed", served |-> 0, refused |-> 0]

\* the process has started and is serving
InitServing ==
    /\ host = [build |-> "part_004", images |-> TRUE, dataDir |-> TRUE,
               writable |-> TRUE, port |-> "free"]
    /\ boot = [NotLoaded EXCEPT !.initDB = "resolved", !.listenCalled = TRUE]
    /\ db = [open |-> TRUE, schema |-> TRUE]
    /\ server = [ClosedServer EXCEPT !.state = "listening"]

\* fs.watch(imagesFolder, ...) at the top level throws when the folder is
\* missing; part_004 tests fs.existsSync first
WatchThrowsAtLoad(h) == h.build = "part_002" /\ ~h.images

\* if (!fs.existsSync(dataDir)) fs.mkdirSync(dataDir, { recursive: true })
\* throws when the folder is missing and cannot be made; part_002 keeps the
\* database file next to the script and makes no folder
MkdirThrows(h) == h.build = "part_004" /\ ~h.dataDir /\ ~h.writable

\* The script is evaluated: the watcher is installed and initDB() is called,
\* which runs up to its first await.  An uncaught throw at the top level
\* ends the process; a throw inside initDB rejects its promise.
LoadModule ==
    /\ boot.alive
    /\ boot.initDB = "unloaded"
    /\ IF WatchThrowsAtLoad(host)
       THEN /\ boot' = [boot EXCEPT !.alive = FALSE]
            /\ UNCHANGED host
       ELSE IF MkdirThrows(host)
       THEN /\ boot' = [boot EXCEPT !.initDB = "rejected"]
            /\ UNCHANGED host
       ELSE /\ boot' = [boot EXCEPT !.initDB = "opening"]
            /\ host' = IF host.build = "part_004"
                       THEN [host EXCEPT !.dataDir = TRUE]
                       ELSE host
    /\ UNCHANGED <<db, server, productVars, watchVars, imgVars, listVars>>

\* db = await open({ filename, driver }) resolves; db.exec is called
OpenResolve ==
    /\ boot.alive
    /\ boot.initDB = "opening"
    /\ db' = [db EXCEPT !.open = TRUE]
    /\ boot' = [boot EXCEPT !.initDB = "creating"]
    /\ UNCHANGED <<host, server, productVars, watchVars, imgVars, listVars>>

\* open rejects: the file cannot be opened or made
OpenReject ==
    /\ boot.alive
    /\ boot.initDB = "opening"
    /\ boot' = [boot EXCEPT !.initDB = "rejected"]
    /\ UNCHANGED <<host, db, server, productVars, watchVars, imgVars,
                   listVars>>

\* await db.exec(CREATE TABLE IF NOT EXISTS products ...) resolves, and with
\* it the promise of initDB
ExecResolve ==
    /\ boot.alive
    /\ boot.initDB = "creating"
    /\ db' = [db EXCEPT !.schema = TRUE]
    /\ boot' = [boot EXCEPT !.initDB = "resolved"]
    /\ UNCHANGED <<host, server, productVars, watchVars, imgVars, listVars>>

\* db.exec rejects
ExecReject ==
    /\ boot.alive
    /\ boot.initDB = "creating"
    /\ boot' = [boot EXCEPT !.initDB = "rejected"]
    /\ UNCHANGED <<host, db, server, productVars, watchVars, imgVars,
                   listVars>>

ThenRunsWhenSettled(b) == b.initDB \in {"resolved", "rejected"}

\* initDB().then(callback): the callback runs once the promise has resolved
ThenRuns(b) == b.initDB \in {"resolved"}

\* .then(() => { server.listen(PORT, ...) }): listen throws at once for a
\* port out of range, which rejects the promise the catch is chained on
ThenListen ==
    /\ boot.alive
    /\ ThenRuns(boot)
    /\ ~boot.listenCalled
    /\ IF host.port = "invalid"
       THEN /\ boot' = [boot EXCEPT !.listenCalled = TRUE, !.thenThrew = TRUE]
            /\ UNCHANGED server
       ELSE /\ boot' = [boot EXCEPT !.listenCalled = TRUE]
            /\ server' = [server EXCEPT !.state = "binding"]
    /\ UNCHANGED <<host, db, productVars, watchVars, imgVars, listVars>>

\* .catch(err => console.error("FAILED TO INITIALIZE DATABASE:", err))
CatchLog ==
    /\ boot.alive
    /\ ~boot.logged
    /\ boot.initDB = "rejected" \/ boot.thenThrew
    /\ boot' = [boot EXCEPT !.logged = TRUE]
    /\ UNCHANGED <<host, db, server, productVars, watchVars, imgVars,
                   listVars>>

\* the port is bound: the listening event, and the callback that logs
Listening ==
    /\ boot.alive
    /\ server.state = "binding"
    /\ host.port = "free"
    /\ server' = [server EXCEPT !.state = "listening"]
    /\ UNCHANGED <<host, boot, db, productVars, watchVars, imgVars, listVars>>

\* the port is taken: the server emits error, nothing listens for it, and
\* the process ends
ListenError ==
    /\ boot.alive
    /\ server.state = "binding"
    /\ host.port = "busy"
    /\ server' = [server EXCEPT !.state = "closed"]
    /\ boot' = [boot EXCEPT !.alive = FALSE]
    /\ UNCHANGED <<host, db, productVars, watchVars, imgVars, listVars>>

\* A client sends a request to the port: a route of the application answers
\* it if the server is listening, the connection is refused otherwise.  No
\* route reads or writes db.
Request ==
    /\ server.served + server.refused < MaxRequests
    /\ IF boot.alive /\ server.state = "listening"
       THEN server' = [server EXCEPT !.served = @ + 1]
       ELSE server' = [server EXCEPT !.refused = @ + 1]
    /\ UNCHANGED <<host, boot, db, productVars, watchVars, imgVars, listVars>>

----------------------------------------------------------------------------
(* Live updates: the socket clients, notifyClients and the folder watcher. *)

ClientIds == 1..MaxClients

NoEmit == [sends |-> <<>>, failing |-> {}, raised |-> FALSE]

InitWatchIdle ==
    /\ watching = FALSE
    /\ clients = <<>>
    /\ notifications = 0
    /\ broadcasts = 0
    /\ lastEmit = NoEmit

Connected == {clients[i].id : i \in 1..Len(clients)}

\* a socket completes its handshake and joins the set
Connect(id) ==
    /\ id \notin Connected
    /\ clients' = Append(clients, [id |-> id, readyState |-> "OPEN"])
    /\ UNCHANGED <<watching, notifications, broadcasts, lastEmit, productVars,
                   imgVars, listVars, bootVars>>

\* the closing handshake of a socket starts; the socket stays in the set
StartClosing(id) ==
    /\ \E i \in 1..Len(clients) :
          /\ clients[i].id = id
          /\ clients[i].readyState = "OPEN"
          /\ clients' = [clients EXCEPT ![i].readyState = "CLOSING"]
    /\ UNCHANGED <<watching, notifications, broadcasts, lastEmit, productVars,
                   imgVars, listVars, bootVars>>

\* a socket is closed and leaves the set
Disconnect(id) ==
    /\ id \in Connected
    /\ clients' = SelectSeq(clients, LAMBDA cl : cl.id # id)
    /\ UNCHANGED <<watching, notifications, broadcasts, lastEmit, productVars,
                   imgVars, listVars, bootVars>>

RECURSIVE ForEachSend(_, _)
\* clients.forEach(client => { if (client.readyState === OPEN)
\* client.send("update") }): one send per open socket, in set order.  A send
\* that fails reports its error later, through the socket, not by a throw.
ForEachSend(cls, failing) ==
    IF cls = <<>> THEN <<>>
    ELSE (IF Head(cls).readyState = "OPEN"
          THEN <<[id |-> Head(cls).id, delivered |-> Head(cls).id \notin failing]>>
          ELSE <<>>)
         \o ForEachSend(Tail(cls), failing)

RECURSIVE SendsUntilFailure(_, _)
SendsUntilFailure(cls, failing) ==
    IF cls = <<>> THEN <<>>
    ELSE IF Head(cls).readyState # "OPEN" THEN SendsUntilFailure(Tail(cls), failing)
    ELSE IF Head(cls).id \in failing
         THEN <<[id |-> Head(cls).id, delivered |-> FALSE]>>
    ELSE <<[id |-> Head(cls).id, delivered |-> TRUE]>>
         \o SendsUntilFailure(Tail(cls), failing)

notifyClientsAbortsOnFailure(cls, failing) ==
    [sends |-> SendsUntilFailure(cls, failing),
     failing |-> failing,
     raised |-> \E i \in 1..Len(cls) :
                    cls[i].readyState = "OPEN" /\ cls[i].id \in failing]

\* function notifyClients(): wss.clients.forEach(...) in server.js,
\* io.emit("update") in the socket.io servers
notifyClients(cls, failing) ==
    [sends |-> ForEachSend(cls, failing), failing |-> failing,
     raised |-> FALSE]

\* the filename argument of the listener: a name, or null when the platform
\* does not supply one
FilenameInputs ==
    {NullVal, StrVal(<<"a", ".", "p", "n", "g">>),
     StrVal(<<"b", ".", "t", "x", "t">>)}

EventTypes == {"rename", "change"}

\* the listener given to fs.watch(imagesFolder, ...)
WatchListener(eventType, filename, failing) ==
    /\ watching
    /\ notifications < MaxEvents
    /\ notifications' = notifications + 1
    /\ IF ToBoolean(filename)
       THEN /\ broadcasts' = broadcasts + 1
            /\ lastEmit' = notifyClients(clients, failing)
       ELSE UNCHANGED <<broadcasts, lastEmit>>
    /\ UNCHANGED <<watching, clients, productVars, imgVars, listVars, bootVars>>

InitWatch ==
    /\ watching \in BOOLEAN
    /\ clients = <<>>
    /\ notifications = 0
    /\ broadcasts = 0
    /\ lastEmit = NoEmit

----------------------------------------------------------------------------
(* The Drive image proxy: GET /img/:id.                                    *)

MinIdLen == 10

LowerCase == <<"a", "b", "c", "d", "e", "f", "g", "h", "i", "j", "k", "l", "m",
               "n", "o", "p", "q", "r", "s", "t", "u", "v", "w", "x", "y", "z">>

UpperCase == <<"A", "B", "C", "D", "E", "F", "G", "H", "I", "J", "K", "L", "M",
               "N", "O", "P", "Q", "R", "S", "T", "U", "V", "W", "X", "Y", "Z">>

\* the class \w
WordChars ==
    {LowerCase[i] : i \in 1..26} \cup {UpperCase[i] : i \in 1..26}
    \cup Digits \cup {"_"}

RECURSIVE IdCharsPrefixLen(_)
\* how far [\w-] matches from the start of s
IdCharsPrefixLen(s) ==
    IF s # <<>> /\ Head(s) \in WordChars \cup {"-"}
    THEN 1 + IdCharsPrefixLen(Tail(s))
    ELSE 0

\* the same test without its anchors: some run of [\w-] is long enough
TestIdUnanchored(id) ==
    \E i \in 1..Len(id) :
        IdCharsPrefixLen(SubSeq(id, i, Len(id))) >= MinIdLen

\* /^[\w-]{10,}$/.test(id)
TestId(id) ==
    LET n == IdCharsPrefixLen(id) IN n >= MinIdLen /\ n = Len(id)

IdleImg ==
    [pc |-> "idle", raw |-> <<>>, id |-> <<>>, fetches |-> 0,
     upstream |-> "none", status |-> 0, contentType |-> "",
     cacheControl |-> "", body |-> ""]

InitImgIdle == img = IdleImg

\* req.params.id as the router decodes it: never empty
Word(n) == [i \in 1..n |-> "a"]

OddChars == {"-", "_", "Z", "9", "!", " "}

IdBodies ==
    {Word(n) : n \in 0..MaxIdLen}
    \cup {[Word(u[1]) EXCEPT ![u[2]] = u[3]] :
              u \in {v \in (1..MaxIdLen) \X (1..MaxIdLen) \X OddChars :
                         v[2] <= v[1]}}

Pads == {<<>>, <<" ">>}

IdInputs == {l \o b \o r : l \in Pads, b \in IdBodies, r \in Pads} \ {<<>>}

\* the handler up to await fetch(url): a bad id is answered at once
ImgRequest(raw) ==
    /\ img.pc = "idle"
    /\ LET id == Trim(raw)
           req == [IdleImg EXCEPT !.raw = raw, !.id = id]
       IN  img' = IF ~TestId(id)
                  THEN [req EXCEPT !.pc = "done", !.status = 400,
                                   !.body = "bad id"]
                  ELSE [req EXCEPT !.pc = "fetching", !.fetches = 1]
    /\ UNCHANGED <<productVars, watchVars, listVars, bootVars>>

\* fetch rejects: catch (e) { res.status(500).send("proxy error") }
ImgFetchReject ==
    /\ img.pc = "fetching"
    /\ img' = [img EXCEPT !.pc = "done", !.upstream = "rejected",
                          !.status = 500, !.body = "proxy error"]
    /\ UNCHANGED <<productVars, watchVars, listVars, bootVars>>

\* fetch resolves with a response r; ct is its content-type header, "" when
\* it has none
ImgFetchResolve(ok, ct) ==
    /\ img.pc = "fetching"
    /\ img' = IF ~ok
              THEN [img EXCEPT !.pc = "done", !.upstream = "not ok",
                               !.status = 502, !.body = "upstream error"]
              ELSE [img EXCEPT !.pc = "reading", !.upstream = "ok",
                               !.contentType =
                                   IF ct # "" THEN ct ELSE "image/jpeg",
                               !.cacheControl = "public, max-age=86400"]
    /\ UNCHANGED <<productVars, watchVars, listVars, bootVars>>

\* r.arrayBuffer() resolves: res.end(buf)
ImgBodyResolve ==
    /\ img.pc = "reading"
    /\ img' = [img EXCEPT !.pc = "done", !.status = 200, !.body = "image"]
    /\ UNCHANGED <<productVars, watchVars, listVars, bootVars>>

\* r.arrayBuffer() rejects: the same catch
ImgBodyReject ==
    /\ img.pc = "reading"
    /\ img' = [img EXCEPT !.pc = "done", !.upstream = "body failed",
                          !.status = 500, !.body = "proxy error"]
    /\ UNCHANGED <<productVars, watchVars, listVars, bootVars>>

\* the response has gone out; the next request may come
ImgClose ==
    /\ img.pc = "done"
    /\ img' = IdleImg
    /\ UNCHANGED <<productVars, watchVars, listVars, bootVars>>

----------------------------------------------------------------------------
(* The image listing: GET /images.                                         *)

ToLower(c) ==
    IF \E i \in 1..26 : UpperCase[i] = c
    THEN LowerCase[CHOOSE i \in 1..26 : UpperCase[i] = c]
    ELSE c

\* name ends with "." and ext, letter case ignored
EndsWithExt(name, ext) ==
    /\ Len(name) > Len(ext)
    /\ name[Len(name) - Len(ext)] = "."
    /\ \A k \in 1..Len(ext) :
          ToLower(name[Len(name) - Len(ext) + k]) = ext[k]

Jpg == <<"j", "p", "g">>
Jpeg == <<"j", "p", "e", "g">>
Png == <<"p", "n", "g">>
Gif == <<"g", "i", "f">>
Webp == <<"w", "e", "b", "p">>
Avif == <<"a", "v", "i", "f">>

\* /\.(jpg|jpeg|png|gif|webp|avif)$/i
IsImageName(name) ==
    \E ext \in {Jpg, Jpeg, Png, Gif, Webp, Avif} : EndsWithExt(name, ext)

\* /\.(jpg|jpeg|png|gif)$/i
IsImageNameOld(name) ==
    \E ext \in {Jpg, Jpeg, Png, Gif} : EndsWithExt(name, ext)

\* what public/images may hold, in the order readdir lists it
Dirents ==
    <<[name |-> <<"a", ".", "p", "n", "g">>, isFile |-> TRUE],
      [name |-> <<"b", ".", "t", "x", "t">>, isFile |-> TRUE],
      [name |-> <<"C", ".", "J", "P", "G">>, isFile |-> TRUE],
      [name |-> <<"o", "l", "d", ".", "g", "i", "f">>, isFile |-> FALSE],
      [name |-> <<"n", ".", "w", "e", "b", "p">>, isFile |-> TRUE]>>

EntriesOf(present) == SelectSeq(Dirents, LAMBDA d : d \in present)

IdleListing ==
    [pc |-> "idle", handler |-> "", cause |-> "none", status |-> 0,
     body |-> <<>>, error |-> FALSE]

InitListIdle ==
    /\ folder = [exists |-> TRUE, present |-> {}]
    /\ listing = IdleListing

CreateFolder ==
    /\ ~folder.exists
    /\ folder' = [exists |-> TRUE, present |-> {}]
    /\ UNCHANGED <<listing, productVars, watchVars, imgVars, bootVars>>

RemoveFolder ==
    /\ folder.exists
    /\ folder' = [exists |-> FALSE, present |-> {}]
    /\ UNCHANGED <<listing, productVars, watchVars, imgVars, bootVars>>

AddEntry(d) ==
    /\ folder.exists
    /\ d \notin folder.present
    /\ folder' = [folder EXCEPT !.present = @ \cup {d}]
    /\ UNCHANGED <<listing, productVars, watchVars, imgVars, bootVars>>

RemoveEntry(d) ==
    /\ d \in folder.present
    /\ folder' = [folder EXCEPT !.present = @ \ {d}]
    /\ UNCHANGED <<listing, productVars, watchVars, imgVars, bootVars>>

Names(ds) == [i \in 1..Len(ds) |-> ds[i].name]

\* app.get("/images", async ...) up to await fs.promises.readdir: a missing
\* folder is answered with [] at once
GetImages ==
    /\ listing.pc \in {"idle", "done"}
    /\ listing' = IF ~folder.exists
                  THEN [IdleListing EXCEPT !.pc = "done", !.handler = "async",
                                           !.cause = "missing",
                                           !.status = 200]
                  ELSE [IdleListing EXCEPT !.pc = "reading",
                                           !.handler = "async"]
    /\ UNCHANGED <<folder, productVars, watchVars, imgVars, bootVars>>

\* readdir resolves: files only, by extension
GetImagesResolve ==
    /\ listing.pc = "reading" /\ listing.handler = "async"
    /\ folder.exists
    /\ listing' = [listing EXCEPT
           !.pc = "done", !.status = 200,
           !.body = SelectSeq(
                        Names(SelectSeq(EntriesOf(folder.present),
                                        LAMBDA d : d.isFile)),
                        IsImageName)]
    /\ UNCHANGED <<folder, productVars, watchVars, imgVars, bootVars>>

\* readdir rejects (the folder is gone, or may not be read): catch, []
GetImagesReject ==
    /\ listing.pc = "reading" /\ listing.handler = "async"
    /\ listing' = [listing EXCEPT !.pc = "done", !.status = 200,
                                  !.cause = "read failed", !.body = <<>>]
    /\ UNCHANGED <<folder, productVars, watchVars, imgVars, bootVars>>

\* app.get("/images", (req, res) => fs.readdir(imagesFolder, callback))
GetImagesReaddir ==
    /\ listing.pc \in {"idle", "done"}
    /\ listing' = [IdleListing EXCEPT !.pc = "reading", !.handler = "callback"]
    /\ UNCHANGED <<folder, productVars, watchVars, imgVars, bootVars>>

\* the readdir callback: 500 and an error object on err, else the names
\* filtered by extension
ReaddirCallback(err) ==
    /\ listing.pc = "reading" /\ listing.handler = "callback"
    /\ err \/ folder.exists
    /\ listing' = IF err
                  THEN [listing EXCEPT
                           !.pc = "done", !.status = 500, !.error = TRUE,
                           !.cause = IF folder.exists THEN "read failed"
                                     ELSE "missing"]
                  ELSE [listing EXCEPT
                           !.pc = "done", !.status = 200,
                           !.body = SelectSeq(Names(EntriesOf(folder.present)),
                                              IsImageNameOld)]
    /\ UNCHANGED <<folder, productVars, watchVars, imgVars, bootVars>>

----------------------------------------------------------------------------
(* Spreadsheet contents.                                                   *)

ImageCells == {StrVal(<<>>), StrVal(<<" ", "a", " ">>)}
NameCells == {StrVal(<<" ", "\t">>), NumVal(0, 0), StrVal(<<"b">>)}
PriceCells == {NumVal(5, 0), StrVal(<<"$", "-", "1", ",", "5">>), BoolVal(TRUE)}
DescCells == {StrVal(<<>>), StrVal(<<"c">>)}

\* rows as the Sheets API returns them: trailing empty cells are left out
RowInputs ==
    {<<>>}
    \cup {<<i>> : i \in ImageCells}
    \cup {<<i, n>> : i \in ImageCells, n \in NameCells}
    \cup {<<i, n, p>> : i \in ImageCells, n \in NameCells, p \in PriceCells}
    \cup {<<i, n, p, d>> : i \in ImageCells, n \in NameCells,
                            p \in PriceCells, d \in DescCells}

EmptyRow == <<StrVal(<<>>), StrVal(<<" ", "\t">>), NumVal(5, 0)>>
CoffeeRow == <<StrVal(<<" ", "a", " ">>), StrVal(<<"b">>),
               StrVal(<<"$", "-", "1", ",", "5">>), StrVal(<<"c">>)>>

SampleSheets == {<<EmptyRow, CoffeeRow>>, <<>>}

----------------------------------------------------------------------------
(* Product cache.                                                          *)

Null == [id |-> -1, products |-> <<>>]

\* the literal [] of the catch branch
EmptyArray == [id |-> 0, products |-> <<>>]

TTLChoices == {1, 2}
KeyChoices == {"valid", "missing", "malformed", "nokey"}

Calls == 1..MaxCalls

\* overlapped: another call has replaced the entry since this one started
IdleCall == [pc |-> "idle", now |-> 0, overlapped |-> FALSE]

NoReturn ==
    [call |-> 0, now |-> 0, overlapped |-> FALSE, invoked |-> FALSE,
     failed |-> FALSE, raised |-> FALSE, result |-> Null, body |-> Null]

IsFreshInverted(cache, now, ttl) ==
    cache.data # Null /\ now - cache.ts > ttl

\* productsCache.data && now - productsCache.ts < PRODUCTS_CACHE_TTL_MS
IsFresh(cache, now, ttl) ==
    cache.data # Null /\ now - cache.ts < ttl

\* the synchronous head of fetchProductsFromSheet and of getSheetsClient: a
\* missing SHEET_ID, a missing key, a key that is not JSON or holds no
\* private_key throw before anything is awaited
ThrowsBeforeAuth(e) == ~e.SHEET_ID \/ e.KEY # "valid"

CatchResultEmpty(cache) == EmptyArray

\* productsCache.data || []
CatchResult(cache) == IF cache.data # Null THEN cache.data ELSE EmptyArray

CacheAfterCatchStamped(cache, now) == [cache EXCEPT !.ts = now]

\* the catch branch assigns nothing to productsCache
CacheAfterCatch(cache, now) == cache

\* app.get("/products"): res.json(products), res.json([]) had getProducts thrown
ProductsBody(ret) == IF ret.raised THEN EmptyArray ELSE ret.result

\* getProducts returns to the /products handler, which answers in the same
\* turn of the event loop
Returned(c, call, invoked, failed, result) ==
    LET r == [NoReturn EXCEPT !.call = c, !.now = call.now,
                              !.overlapped = call.overlapped,
                              !.invoked = invoked, !.failed = failed,
                              !.result = result]
    IN  [r EXCEPT !.body = ProductsBody(r)]

\* catch (err) { ...; return productsCache.data || []; }
Caught(c, call) == Returned(c, call, TRUE, TRUE, CatchResult(productsCache))

\* A request for /products arrives: getProducts runs up to its first await.
\* A rejection raised before anything is awaited is caught in the same turn
\* of the event loop.
GetProductsStart(c) ==
    /\ calls[c].pc = "idle"
    /\ LET now == clock
           started == [IdleCall EXCEPT !.now = now]
       IN  IF IsFresh(productsCache, now, env.TTL)
           THEN /\ lastCall' =
                       Returned(c, started, FALSE, FALSE, productsCache.data)
                /\ UNCHANGED <<calls, productsCache>>
           ELSE IF ThrowsBeforeAuth(env)
           THEN /\ lastCall' = Caught(c, started)
                /\ productsCache' = CacheAfterCatch(productsCache, now)
                /\ UNCHANGED calls
           ELSE /\ calls' = [calls EXCEPT ![c] =
                        [started EXCEPT !.pc = "fetching"]]
                /\ UNCHANGED <<lastCall, productsCache>>
    /\ UNCHANGED <<env, clock, sheetRows, readerOut, fetchSeq,
                   otherVars>>

\* productsCache = { data, ts: now }
Stored(c, data) == [data |-> data, ts |-> calls[c].now]

\* auth.getClient() and values.get have resolved: the rows are mapped, the
\* entry is replaced and the data returned
FetchResolve(c) ==
    /\ calls[c].pc = "fetching"
    /\ fetchSeq < MaxFetches
    /\ LET data == [id |-> fetchSeq + 1, products |-> ProductsOfRows(sheetRows)]
       IN  /\ productsCache' = Stored(c, data)
           /\ lastCall' = Returned(c, calls[c], TRUE, FALSE, data)
    /\ calls' = [d \in Calls |->
            IF d = c THEN IdleCall
            ELSE IF calls[d].pc = "fetching"
                 THEN [calls[d] EXCEPT !.overlapped = TRUE]
            ELSE calls[d]]
    /\ fetchSeq' = fetchSeq + 1
    /\ UNCHANGED <<env, clock, sheetRows, readerOut,
                   otherVars>>

\* auth.getClient() or values.get rejects
FetchReject(c) ==
    /\ calls[c].pc = "fetching"
    /\ lastCall' = Caught(c, calls[c])
    /\ productsCache' = CacheAfterCatch(productsCache, calls[c].now)
    /\ calls' = [calls EXCEPT ![c] = IdleCall]
    /\ UNCHANGED <<env, clock, sheetRows, readerOut, fetchSeq,
                   otherVars>>

Tick ==
    /\ clock < MaxClock
    /\ clock' = clock + 1
    /\ UNCHANGED <<env, sheetRows, readerOut, productsCache, fetchSeq, calls,
                   lastCall,
                   otherVars>>

\* somebody edits the spreadsheet
EditSheet ==
    /\ \E rows \in SampleSheets : rows # sheetRows /\ sheetRows' = rows
    /\ UNCHANGED <<env, clock, readerOut, productsCache, fetchSeq, calls,
                   lastCall,
                   otherVars>>

InitCache ==
    /\ env \in [SHEET_ID : BOOLEAN, KEY : KeyChoices, TTL : TTLChoices]
    /\ clock = 0
    /\ sheetRows \in SampleSheets
    /\ readerOut = [rows |-> <<>>, products |-> <<>>]
    /\ productsCache = [data |-> Null, ts |-> 0]
    /\ fetchSeq = 0
    /\ calls = [c \in Calls |-> IdleCall]
    /\ lastCall = NoReturn
    /\ InitWatchIdle
    /\ InitImgIdle
    /\ InitListIdle
    /\ InitServing

NextCache ==
    \/ \E c \in Calls : GetProductsStart(c)
    \/ \E c \in Calls : FetchResolve(c)
    \/ \E c \in Calls : FetchReject(c)
    \/ Tick
    \/ EditSheet

SpecCache == InitCache /\ [][NextCache]_vars

----------------------------------------------------------------------------
(* The spreadsheet reader on its own.                                      *)

\* a row is entered at the bottom of the sheet
AppendRow(r) ==
    /\ Len(sheetRows) < MaxRows
    /\ sheetRows' = Append(sheetRows, r)
    /\ UNCHANGED <<readerOut, env, clock, productsCache, fetchSeq, calls,
                   lastCall,
                   otherVars>>

\* fetchProductsFromSheet() resolves: rows = resp.data.values || [], and the
\* products mapped from them
FetchProductsFromSheet ==
    /\ ~ThrowsBeforeAuth(env)
    /\ readerOut' = [rows |-> sheetRows, products |-> ProductsOfRows(sheetRows)]
    /\ UNCHANGED <<sheetRows, env, clock, productsCache, fetchSeq, calls,
                   lastCall,
                   otherVars>>

\* the product endpoints at rest
InitProductsIdle ==
    /\ env = [SHEET_ID |-> TRUE, KEY |-> "valid", TTL |-> 2]
    /\ clock = 0
    /\ sheetRows = <<>>
    /\ readerOut = [rows |-> <<>>, products |-> <<>>]
    /\ productsCache = [data |-> Null, ts |-> 0]
    /\ fetchSeq = 0
    /\ calls = [c \in Calls |-> IdleCall]
    /\ lastCall = NoReturn

InitSheet ==
    InitProductsIdle /\ InitWatchIdle /\ InitImgIdle /\ InitListIdle
    /\ InitServing

NextSheet ==
    \/ \E r \in RowInputs : AppendRow(r)
    \/ FetchProductsFromSheet

----------------------------------------------------------------------------
(* The watcher and the broadcast on their own.                             *)

InitBroadcast ==
    InitProductsIdle /\ InitWatch /\ InitImgIdle /\ InitListIdle
    /\ InitServing

NextBroadcast ==
    \/ \E id \in ClientIds : Connect(id)
    \/ \E id \in ClientIds : StartClosing(id)
    \/ \E id \in ClientIds : Disconnect(id)
    \/ \E t \in EventTypes, f \in FilenameInputs, failing \in SUBSET Connected :
          WatchListener(t, f, failing)

SpecBroadcast == InitBroadcast /\ [][NextBroadcast]_vars

SpecSheet == InitSheet /\ [][NextSheet]_vars

----------------------------------------------------------------------------
(* The image proxy on its own.                                             *)

InitImg ==
    InitProductsIdle /\ InitWatchIdle /\ InitImgIdle /\ InitListIdle
    /\ InitServing

ContentTypes == {"", "image/png"}

NextImg ==
    \/ \E raw \in IdInputs : ImgRequest(raw)
    \/ ImgFetchReject
    \/ \E ok \in BOOLEAN, ct \in ContentTypes : ImgFetchResolve(ok, ct)
    \/ ImgBodyResolve
    \/ ImgBodyReject
    \/ ImgClose

SpecImg == InitImg /\ [][NextImg]_vars

----------------------------------------------------------------------------
(* The image listing on its own.                                           *)

InitImages ==
    /\ InitProductsIdle /\ InitWatchIdle /\ InitImgIdle /\ InitServing
    /\ folder \in [exists : BOOLEAN, present : {{}}]
    /\ listing = IdleListing

DirentSet == {Dirents[i] : i \in 1..Len(Dirents)}

NextImages ==
    \/ CreateFolder
    \/ RemoveFolder
    \/ \E d \in DirentSet : AddEntry(d)
    \/ \E d \in DirentSet : RemoveEntry(d)
    \/ GetImages
    \/ GetImagesResolve
    \/ GetImagesReject
    \/ GetImagesReaddir
    \/ \E err \in BOOLEAN : ReaddirCallback(err)

SpecImages == InitImages /\ [][NextImages]_vars

----------------------------------------------------------------------------
(* Start-up on its own.                                                    *)

InitStartup ==
    /\ InitProductsIdle /\ InitWatchIdle /\ InitImgIdle /\ InitListIdle
    /\ host \in Hosts
    /\ boot = NotLoaded
    /\ db = NoDb
    /\ server = ClosedServer

NextStartup ==
    \/ LoadModule
    \/ OpenResolve
    \/ OpenReject
    \/ ExecResolve
    \/ ExecReject
    \/ ThenListen
    \/ CatchLog
    \/ Listening
    \/ ListenError
    \/ Request

SpecStartup == InitStartup /\ [][NextStartup]_vars

----------------------------------------------------------------------------
(* Claims about the product cache, checked under SpecCache.                *)

\* the step is call c entering getProducts
StartsCall(c) ==
    /\ calls[c].pc = "idle"
    /\ \/ calls'[c].pc = "fetching"
       \/ calls' = calls /\ lastCall' # lastCall /\ lastCall'.call = c

\* the step is call c returning through the catch branch of getProducts
FailsCall(c) ==
    /\ lastCall'.call = c
    /\ lastCall'.failed
    /\ \/ calls[c].pc = "fetching" /\ calls'[c].pc = "idle"
       \/ calls[c].pc = "idle" /\ calls' = calls /\ lastCall' # lastCall

\* C1: once a fetch has succeeded and stored its result, a getProducts()
\* call made while now - ts < TTL returns the stored data object itself and
\* does not invoke fetchProductsFromSheet.
C1_FreshEntryServedWithoutFetch ==
    [][\A c \in Calls :
          (StartsCall(c) /\ fetchSeq > 0
                         /\ clock - productsCache.ts < env.TTL)
          => /\ lastCall'.call = c
             /\ lastCall'.result = productsCache.data
             /\ ~lastCall'.invoked
             /\ calls' = calls
             /\ productsCache' = productsCache]_vars

\* a call made one tick after the entry was stamped was answered from it
C1_Witness ==
    /\ lastCall.call # 0
    /\ ~lastCall.invoked
    /\ lastCall.result.id > 0
    /\ lastCall.result = productsCache.data
    /\ lastCall.now = productsCache.ts + 1

\* C2: getProducts() never raises; a call whose fetch fails returns the
\* stored data if a fetch has ever succeeded and an empty array otherwise,
\* and /products answers with what getProducts returned.
C2_FailedFetchFallsBack ==
    [][\A c \in Calls :
          FailsCall(c)
          => /\ ~lastCall'.raised
             /\ lastCall'.result =
                    (IF fetchSeq > 0 THEN productsCache.data ELSE EmptyArray)
             /\ lastCall'.body = lastCall'.result]_vars

\* a fetch made after the entry had expired failed: stale data was served
C2_Witness ==
    /\ lastCall.failed
    /\ lastCall.invoked
    /\ lastCall.result.id > 0
    /\ lastCall.result = productsCache.data
    /\ lastCall.now - productsCache.ts >= env.TTL

C4_EntryNeverGoesBack ==
    /\ [](productsCache.data = Null \/ productsCache.data.id = fetchSeq)
    /\ [][productsCache.data # Null
          => productsCache'.ts >= productsCache.ts]_vars

\* the step is call c returning the data its fetch resolved with
SucceedsCall(c) ==
    /\ calls[c].pc = "fetching"
    /\ calls'[c].pc = "idle"
    /\ lastCall'.call = c
    /\ ~lastCall'.failed

\* C12: when the fetch of a getProducts() call succeeds, the entry becomes
\* the fetched data stamped with the clock value of the moment it is stored,
\* so the entry is fresh for a full TTL from then on; the call returns the
\* fetched data.
C12_StampedWhenStored ==
    [][\A c \in Calls :
          SucceedsCall(c)
          => /\ productsCache'.data = lastCall'.result
             /\ lastCall'.result.id = fetchSeq'
             /\ lastCall'.body = lastCall'.result
             /\ productsCache'.ts = clock']_vars

----------------------------------------------------------------------------
(* Claims about the spreadsheet reader, checked under SpecSheet.           *)

\* a cell that is absent or a string of white space only
BlankCell(r, i) ==
    \/ i > Len(r)
    \/ r[i].t = "string" /\ \A k \in 1..Len(r[i].s) : r[i].s[k] \in WhiteSpace

\* image, name and description are all empty
BlankRow(r) == BlankCell(r, 1) /\ BlankCell(r, 2) /\ BlankCell(r, 4)

RECURSIVE NonBlankFrom(_, _)
\* the positions from i on of the rows that are not blank, in source order
NonBlankFrom(rows, i) ==
    IF i > Len(rows) THEN <<>>
    ELSE (IF BlankRow(rows[i]) THEN <<>> ELSE <<i>>) \o NonBlankFrom(rows, i + 1)

\* C10: every record fetchProductsFromSheet returns has a non-empty image,
\* name or description after trimming; a row whose three texts are empty is
\* dropped whatever its price cell holds; the other rows keep their order.
C10_BlankRowsDropped ==
    LET ps == readerOut.products
        kept == NonBlankFrom(readerOut.rows, 1)
    IN  /\ \A k \in 1..Len(ps) :
              \/ Trim(ps[k].image) # <<>>
              \/ Trim(ps[k].name) # <<>>
              \/ Trim(ps[k].description) # <<>>
        /\ Len(ps) = Len(kept)
        /\ \A k \in 1..Len(ps) : ps[k] = MapRow(readerOut.rows[kept[k]])

\* a blank row with a price of 5 was dropped ahead of a row that was kept
C10_Witness ==
    /\ Len(readerOut.rows) = 2
    /\ BlankRow(readerOut.rows[1])
    /\ Cell(readerOut.rows[1], 3) = NumVal(5, 0)
    /\ Len(readerOut.products) = 1
    /\ readerOut.products[1].name = <<"0">>

\* a price cell that holds no number: absent, null, or text without a digit
Unparsable(cell) ==
    /\ cell.t # "number"
    /\ \A k \in 1..Len(String(cell)) : String(cell)[k] \notin Digits

\* C11: the price fetchProductsFromSheet gives to a row is never below zero,
\* whatever the raw price cell holds (a number, text with a currency symbol,
\* a comma or a minus sign, or nothing), and it is 0 when the cell cannot be
\* parsed.
C11_PriceNeverNegative ==
    LET ps == readerOut.products
        kept == NonBlankFrom(readerOut.rows, 1)
    IN  \A k \in 1..Len(ps) :
            /\ ps[k].price.num >= 0
            /\ Unparsable(Cell(readerOut.rows[kept[k]], 3)) => ps[k].price = Zero

----------------------------------------------------------------------------
(* Claims about the broadcast and the watcher, checked under SpecBroadcast. *)

IsOpen(id) ==
    \E i \in 1..Len(clients) :
        clients[i].id = id /\ clients[i].readyState = "OPEN"

SendsTo(emit, id) == {i \in 1..Len(emit.sends) : emit.sends[i].id = id}

\* C5: an invocation of notifyClients sends exactly one signal to each
\* client connected at that moment, whichever sends fail, and does not
\* raise; a client whose own send does not fail gets the signal.
C5_OneSignalPerOpenClient ==
    [][broadcasts' = broadcasts + 1
       => /\ ~lastEmit'.raised
          /\ \A id \in ClientIds :
                IF IsOpen(id)
                THEN /\ Cardinality(SendsTo(lastEmit', id)) = 1
                     /\ \A i \in SendsTo(lastEmit', id) :
                           lastEmit'.sends[i].delivered
                               = (id \notin lastEmit'.failing)
                ELSE SendsTo(lastEmit', id) = {}]_vars

\* the send to the first of two open clients failed and the second client
\* got its signal
C5_Witness ==
    /\ Len(lastEmit.sends) = 2
    /\ ~lastEmit.sends[1].delivered
    /\ lastEmit.sends[2].delivered
    /\ ~lastEmit.raised

\* C6: every notification the watcher delivers results in exactly one
\* broadcast, whatever it carries: N notifications, N broadcasts.
C6_EveryNotificationBroadcasts == broadcasts = notifications

----------------------------------------------------------------------------
(* Claims about the image proxy, checked under SpecImg.                    *)

\* word characters and hyphens only, at least ten of them
WellFormedId(id) ==
    /\ Len(id) >= 10
    /\ \A k \in 1..Len(id) : id[k] \in WordChars \/ id[k] = "-"

\* the id with the white space around it removed
Stripped(id) ==
    IF \A k \in 1..Len(id) : id[k] \in WhiteSpace THEN <<>>
    ELSE LET first == CHOOSE i \in 1..Len(id) :
                          /\ id[i] \notin WhiteSpace
                          /\ \A k \in 1..(i - 1) : id[k] \in WhiteSpace
             last == CHOOSE j \in 1..Len(id) :
                         /\ id[j] \notin WhiteSpace
                         /\ \A k \in (j + 1)..Len(id) : id[k] \in WhiteSpace
         IN  SubSeq(id, first, last)

\* C7 as stated: a request whose id does not match the pattern is answered
\* 400 and no outbound fetch is issued for it.
C7_MalformedIdNeverFetched ==
    (img.pc # "idle" /\ ~WellFormedId(img.raw))
    => (img.pc = "done" /\ img.status = 400 /\ img.fetches = 0)

\* C7 amended: a request whose id, with the white space around it removed,
\* does not match the pattern is answered 400 and no outbound fetch is
\* issued for it.
C7_MalformedTrimmedIdNeverFetched ==
    (img.pc # "idle" /\ ~WellFormedId(Stripped(img.raw)))
    => (img.pc = "done" /\ img.status = 400 /\ img.fetches = 0)

\* an id long enough but holding a character outside the class was refused
C7_Witness ==
    /\ img.pc = "done"
    /\ img.status = 400
    /\ img.fetches = 0
    /\ Len(img.raw) > 10
    /\ \E k \in 1..Len(img.raw) : img.raw[k] = "!"

\* C9: with a well-formed id every upstream failure, a non-success response
\* or a failed fetch, is answered 502, and the proxy answers with nothing
\* but success, 400 and 502.
C9_UpstreamFailureIs502 ==
    img.pc = "done"
    => /\ img.status \in {200, 400, 502}
       /\ (WellFormedId(img.id) /\ img.upstream \in {"rejected", "not ok"})
          => img.status = 502

----------------------------------------------------------------------------
(* Claims about the image listing, checked under SpecImages.               *)

\* C8: GET /images never answers with an error: when the folder is missing
\* or cannot be read the answer is an empty JSON array.
C8_ListingNeverFails ==
    listing.pc = "done"
    => /\ listing.status = 200
       /\ ~listing.error
       /\ listing.cause # "none" => listing.body = <<>>

----------------------------------------------------------------------------
(* Claims about start-up, checked under SpecStartup.                       *)

\* C13: the server listens only after initDB() has opened the database and
\* created the schema; once initDB() has failed the server never listens and
\* no request is served; and serving a request never touches the database.
C13_ListenOnlyAfterInitDB ==
    /\ [](server.state = "listening"
          => db.open /\ db.schema /\ boot.initDB = "resolved")
    /\ [](boot.initDB = "rejected"
          => server.state = "closed" /\ server.served = 0)
    /\ [](server.served > 0 => db.open /\ db.schema)
    /\ [][server'.served # server.served => db' = db]_vars

\* the data folder was made, the database opened, the table created, the
\* port bound, and a request served
C13_Witness ==
    /\ host.build = "part_004"
    /\ host.dataDir
    /\ db.schema
    /\ server.state = "listening"
    /\ server.served > 0

====
